---------------------------- MODULE Spec2Model ----------------------------
(***************************************************************************)
(* Model of components/libraries/util/app_error.h: the check macros        *)
(* APP_ERROR_CHECK and APP_ERROR_CHECK_BOOL, the handler selection macro   *)
(* APP_ERROR_HANDLER, and the two reporters app_error_log and              *)
(* app_error_print.                                                        *)
(*                                                                         *)
(* A uint32_t is the pair <<lo, hi>> of its 16-bit halves, so that values  *)
(* up to 0xFFFFFFFF and the narrowing of a wider argument into the macros' *)
(* 32-bit locals are exact.  A macro argument is a little-endian sequence  *)
(* of 16-bit limbs: one limb for a bool/uint16_t, two for a uint32_t, four *)
(* for a uint64_t.                                                         *)
(***************************************************************************)
EXTENDS Integers, Sequences, FiniteSets

\* Number of operations of one run of the program that the model follows.
MaxCalls == 2

---------------------------------------------------------------------------
\* uint32_t values

Word(hi, lo) == <<lo, hi>>

\* a + n on uint32_t, for 0 <= n < 65536
Add32(a, n) ==
    LET lo == a[1] + n
    IN  <<lo % 65536, (a[2] + lo \div 65536) % 65536>>

\* conversion of an integer argument to uint32_t: the low 32 bits
ToUint32(v) == <<v[1], IF Len(v) >= 2 THEN v[2] ELSE 0>>

\* the success sentinel, (NRF_ERROR_BASE_NUM + 0)
NRF_SUCCESS == Word(0, 0)

NRF_FAULT_ID_SDK_RANGE_START == Word(0, 16384)
NRF_FAULT_ID_SDK_ERROR  == Add32(NRF_FAULT_ID_SDK_RANGE_START, 1)
NRF_FAULT_ID_SDK_ASSERT == Add32(NRF_FAULT_ID_SDK_RANGE_START, 2)

NULL == Word(0, 0)

---------------------------------------------------------------------------
\* printf conversions

HexDigit(d) == <<"0","1","2","3","4","5","6","7","8","9","A","B","C","D","E","F">>[d + 1]

RECURSIVE HexNat(_)
HexNat(n) == IF n < 16 THEN HexDigit(n) ELSE HexNat(n \div 16) \o HexDigit(n % 16)

\* the four hex digits of a 16-bit half, leading zeros kept
Hex4(n) == HexDigit(n \div 4096) \o HexDigit((n \div 256) % 16)
             \o HexDigit((n \div 16) % 16) \o HexDigit(n % 16)

\* "%X" of an unsigned int
FmtX(w) == IF w[2] = 0 THEN HexNat(w[1]) ELSE HexNat(w[2]) \o Hex4(w[1])

RECURSIVE DecNat(_)
DecNat(n) == IF n < 10 THEN HexDigit(n) ELSE DecNat(n \div 10) \o HexDigit(n % 10)

\* "%u" of a uint16_t promoted to unsigned int
FmtU(n) == DecNat(n)


---------------------------------------------------------------------------
\* Memory: the payload records and the static strings they point to

\* addresses of the payloads the callers of the reporters hold (RAM)
ErrFull      == Word(8192, 256)     \* error_info_t  {42, "foo.c", 7}
ErrNoFile    == Word(8192, 272)     \* error_info_t  {42, NULL,    7}
AssertFull   == Word(8192, 288)     \* assert_info_t {10, "bar.c"}
AssertNoFile == Word(8192, 304)     \* assert_info_t {10, NULL}
\* address of the error_info_t the handlers build before stopping
HandlerInfo  == Word(8192, 4096)

\* addresses of the static, null-terminated file names (flash)
StrFoo  == Word(1, 0)
StrBar  == Word(1, 16)
StrMain == Word(1, 32)

CString(p) ==
    CASE p = StrFoo  -> "foo.c"
      [] p = StrBar  -> "bar.c"
      [] p = StrMain -> "main.c"

error_info_t(line_num, p_file_name, err_code) ==
    [type |-> "error_info_t", line_num |-> line_num,
     p_file_name |-> p_file_name, err_code |-> err_code]

\* an assert_info_t has no err_code member; the field is kept empty
assert_info_t(line_num, p_file_name) ==
    [type |-> "assert_info_t", line_num |-> line_num,
     p_file_name |-> p_file_name, err_code |-> <<>>]

ErrorInfos  == {ErrFull, ErrNoFile}
AssertInfos == {AssertFull, AssertNoFile}

InitMem ==
    [a \in ErrorInfos \cup AssertInfos \cup {HandlerInfo} |->
        CASE a = ErrFull      -> error_info_t(42, StrFoo, Word(0, 7))
          [] a = ErrNoFile    -> error_info_t(42, NULL, Word(0, 7))
          [] a = AssertFull   -> assert_info_t(10, StrBar)
          [] a = AssertNoFile -> assert_info_t(10, NULL)
          [] a = HandlerInfo  -> error_info_t(0, NULL, Word(0, 0))]

---------------------------------------------------------------------------
\* Inputs

\* the two build configurations (DEBUG defined or not)
Builds == {"DEBUG", "RELEASE"}

\* ret_code_t results handed to APP_ERROR_CHECK: NRF_SUCCESS, 0x0B, 0xFFFFFFFF
StatusValues == {<<0, 0>>, <<11, 0>>, <<65535, 65535>>}

\* conditions handed to APP_ERROR_CHECK_BOOL: false and true (bool), 0, 5 and
\* (uint32_t)-1, and the uint64_t values 0, 0x100000000 and 0x100000001
Conditions == {<<0>>, <<1>>, <<0, 0>>, <<5, 0>>, <<65535, 65535>>,
               <<0, 0, 0, 0>>, <<0, 0, 1, 0>>, <<1, 0, 1, 0>>}

\* __LINE__ of the call site of a check macro
CallSiteLines == {181}

\* fault identifiers: the two known ones, the range start and 0
FaultIds == {NRF_FAULT_ID_SDK_ERROR, NRF_FAULT_ID_SDK_ASSERT,
             NRF_FAULT_ID_SDK_RANGE_START, Word(0, 0)}

KnownIds == {NRF_FAULT_ID_SDK_ERROR, NRF_FAULT_ID_SDK_ASSERT}

\* program counters: 0 (unavailable) and 0x0001C2A4
ProgramCounters == {Word(0, 0), Word(1, 49828)}

\* The info values a caller passes with an identifier.  With a known
\* identifier the caller passes a pointer to the matching record (any other
\* pairing makes the reporters read outside the object); with any other
\* identifier info is arbitrary, null included.
InfosFor(id) ==
    CASE id = NRF_FAULT_ID_SDK_ERROR  -> ErrorInfos
      [] id = NRF_FAULT_ID_SDK_ASSERT -> AssertInfos
      [] OTHER -> {NULL, ErrFull, AssertNoFile}

\* what printf("%s", NULL) may do: print a placeholder, print the bytes found
\* at address 0, or fault
NullStringOutcomes == {"placeholder", "bytes", "fault"}

---------------------------------------------------------------------------
\* The check macros

\* One evaluation of the argument expression "(counter++, v)": its value, and
\* the counter after the side effect.
EvalArg(v, cnt) == [val |-> v, cnt |-> cnt + 1]

\* APP_ERROR_HANDLER(ERR_CODE): the handler call the build selects.  The bare
\* handler takes the code alone; line_num and p_file_name are then unused.
APP_ERROR_HANDLER(ERR_CODE, cfg, line) ==
    IF cfg = "DEBUG"
    THEN [fn |-> "app_error_handler", error_code |-> ERR_CODE,
          line_num |-> line, p_file_name |-> StrMain]
    ELSE [fn |-> "app_error_handler_bare", error_code |-> ERR_CODE,
          line_num |-> 0, p_file_name |-> NULL]

\* APP_ERROR_CHECK with the test inverted (== for !=) around a live handler call
APP_ERROR_CHECK_inverted(ERR_CODE, cnt, cfg, line) ==
    LET e == EvalArg(ERR_CODE, cnt)
        LOCAL_ERR_CODE == ToUint32(e.val)
    IN  [cnt |-> e.cnt,
         handler |-> IF LOCAL_ERR_CODE = NRF_SUCCESS
                     THEN <<APP_ERROR_HANDLER(LOCAL_ERR_CODE, cfg, line)>>
                     ELSE << >>]

\* APP_ERROR_CHECK with the handler call live but outside the if
APP_ERROR_CHECK_unconditional(ERR_CODE, cnt, cfg, line) ==
    LET e == EvalArg(ERR_CODE, cnt)
        LOCAL_ERR_CODE == ToUint32(e.val)
    IN  [cnt |-> e.cnt,
         handler |-> <<APP_ERROR_HANDLER(LOCAL_ERR_CODE, cfg, line)>>]

\* APP_ERROR_CHECK(ERR_CODE): the argument is evaluated once into the 32-bit
\* local; the body of the if is an empty statement, the handler call being
\* commented out.  Result: the counter after the evaluation and the handler
\* calls made, in order.
APP_ERROR_CHECK(ERR_CODE, cnt, cfg, line) ==
    LET e == EvalArg(ERR_CODE, cnt)
        LOCAL_ERR_CODE == ToUint32(e.val)
    IN  [cnt |-> e.cnt,
         handler |-> IF LOCAL_ERR_CODE # NRF_SUCCESS THEN << >> ELSE << >>]

\* APP_ERROR_CHECK_BOOL testing the macro argument again instead of the local
APP_ERROR_CHECK_BOOL_twice(BOOLEAN_VALUE, cnt, cfg, line) ==
    LET e == EvalArg(BOOLEAN_VALUE, cnt)
        again == EvalArg(BOOLEAN_VALUE, e.cnt)
    IN  [cnt |-> again.cnt,
         handler |-> IF ToUint32(again.val) = Word(0, 0)
                     THEN <<APP_ERROR_HANDLER(Word(0, 0), cfg, line)>>
                     ELSE << >>]

\* APP_ERROR_CHECK_BOOL(BOOLEAN_VALUE): the argument is evaluated once into
\* the 32-bit local; APP_ERROR_HANDLER(0) when the local is zero.
APP_ERROR_CHECK_BOOL(BOOLEAN_VALUE, cnt, cfg, line) ==
    LET e == EvalArg(BOOLEAN_VALUE, cnt)
        LOCAL_BOOLEAN_VALUE == ToUint32(e.val)
    IN  [cnt |-> e.cnt,
         handler |-> IF LOCAL_BOOLEAN_VALUE = Word(0, 0)
                     THEN <<APP_ERROR_HANDLER(Word(0, 0), cfg, line)>>
                     ELSE << >>]

---------------------------------------------------------------------------
\* The handlers (declared in app_error.h, defined elsewhere)

\* app_error_save_and_stop without the loop: it saves and returns
app_error_save_and_stop_returns(id, pc, info) ==
    [saved |-> <<id, pc, info>>, returns |-> TRUE]

\* Saves the parameters and enters the eternal loop: it does not return.
app_error_save_and_stop(id, pc, info) ==
    [saved |-> <<id, pc, info>>, returns |-> FALSE]

\* Verbose handler: captures line and file in an error_info_t and forwards
\* it to the fault handler with identifier SDK_ERROR and pc 0.
app_error_handler(error_code, line_num, p_file_name, m) ==
    [mem  |-> [m EXCEPT ![HandlerInfo] =
                   error_info_t(line_num % 65536, p_file_name, error_code)],
     stop |-> app_error_save_and_stop(NRF_FAULT_ID_SDK_ERROR, Word(0, 0), HandlerInfo)]

\* Minimal handler: forwards the error code alone, no location.
app_error_handler_bare(error_code, m) ==
    [mem  |-> [m EXCEPT ![HandlerInfo] = error_info_t(0, NULL, error_code)],
     stop |-> app_error_save_and_stop(NRF_FAULT_ID_SDK_ERROR, Word(0, 0), HandlerInfo)]

\* the handler call h, run on memory m
RunHandler(h, m) ==
    IF h.fn = "app_error_handler"
    THEN app_error_handler(h.error_code, h.line_num, h.p_file_name, m)
    ELSE app_error_handler_bare(h.error_code, m)

---------------------------------------------------------------------------
\* The reporters.  Result: the lines written to the sink, the addresses
\* dereferenced, the addresses written, and whether the call faulted.

Report(lines, reads, faulted) ==
    [lines |-> lines, reads |-> reads, writes |-> {}, faulted |-> faulted]

\* app_error_log: every NRF_LOG_INFO call is commented out; what is left of
\* the two cases is the test of p_file_name, which reads the record.
app_error_log(id, pc, info, m) ==
    CASE id = NRF_FAULT_ID_SDK_ASSERT ->
           IF m[info].p_file_name # NULL
           THEN Report(<< >>, {info}, FALSE)
           ELSE Report(<< >>, {info}, FALSE)
      [] id = NRF_FAULT_ID_SDK_ERROR ->
           IF m[info].p_file_name # NULL
           THEN Report(<< >>, {info}, FALSE)
           ELSE Report(<< >>, {info}, FALSE)
      [] OTHER -> Report(<< >>, {}, FALSE)

\* unsigned int tmp = <a uint32_t>
ToUnsignedInt(w) == w

\* the header with tmp never reassigned: all three lines print the identifier
PrintHeader_stale_tmp(id, pc, info) ==
    << "app_error_print():\r\n",
       "Fault identifier:  0x" \o FmtX(ToUnsignedInt(id)) \o "\r\n",
       "Program counter:   0x" \o FmtX(ToUnsignedInt(id)) \o "\r\n",
       "Fault information: 0x" \o FmtX(ToUnsignedInt(id)) \o "\r\n" >>

\* the four unconditional lines of app_error_print
PrintHeader(id, pc, info) ==
    << "app_error_print():\r\n",
       "Fault identifier:  0x" \o FmtX(ToUnsignedInt(id)) \o "\r\n",
       "Program counter:   0x" \o FmtX(ToUnsignedInt(pc)) \o "\r\n",
       "Fault information: 0x" \o FmtX(ToUnsignedInt(info)) \o "\r\n" >>

LineNumberLine(line_num) == "Line Number: " \o FmtU(line_num) \o "\r\n"
FileNameLine(text)       == "File Name:   " \o text \o "\r\n"
ErrorCodeLine(err_code)  == "Error Code:  0x" \o FmtX(ToUnsignedInt(err_code)) \o "\r\n"

\* printf("File Name:   %s\r\n", p): the string at p; with p null the
\* behaviour is undefined and ub names the outcome.  Result: the lines
\* written and whether the call faulted.
PrintFileName(p, ub) ==
    IF p # NULL THEN [lines |-> <<FileNameLine(CString(p))>>, faulted |-> FALSE]
    ELSE CASE ub = "placeholder" -> [lines |-> <<FileNameLine("(null)")>>, faulted |-> FALSE]
           [] ub = "bytes"       -> [lines |-> <<FileNameLine("<bytes at 0>")>>, faulted |-> FALSE]
           [] ub = "fault"       -> [lines |-> << >>, faulted |-> TRUE]

app_error_print(id, pc, info, m, ub) ==
    LET header == PrintHeader(id, pc, info)
    IN  CASE id = NRF_FAULT_ID_SDK_ASSERT ->
               LET f == PrintFileName(m[info].p_file_name, ub)
               IN  Report(header \o <<LineNumberLine(m[info].line_num)>> \o f.lines,
                          {info, m[info].p_file_name}, f.faulted)
          [] id = NRF_FAULT_ID_SDK_ERROR ->
               LET f == PrintFileName(m[info].p_file_name, ub)
               IN  Report(header \o <<LineNumberLine(m[info].line_num)>> \o f.lines
                            \o (IF f.faulted THEN << >>
                                ELSE <<ErrorCodeLine(m[info].err_code)>>),
                          {info, m[info].p_file_name}, f.faulted)
          [] OTHER -> Report(header, {}, FALSE)

---------------------------------------------------------------------------
\* The program

VARIABLES
    build,      \* the build configuration the program was compiled in
    mode,       \* "nominal", "faulted" (in the eternal loop) or "hardfault"
    evalCount,  \* the counter the macro arguments increment
    mem,        \* the payload records
    saved,      \* the parameters app_error_save_and_stop saved, << >> if none
    stdout,     \* the lines printf wrote
    logSink,    \* the lines nrf_log received
    calls       \* the operations executed so far, each with what it did

vars == <<build, mode, evalCount, mem, saved, stdout, logSink, calls>>

Init ==
    /\ build \in Builds
    /\ mode = "nominal"
    /\ evalCount = 0
    /\ mem = InitMem
    /\ saved = << >>
    /\ stdout = << >>
    /\ logSink = << >>
    /\ calls = << >>

CanCall == mode = "nominal" /\ Len(calls) < MaxCalls

\* The handler calls hs run in order on memory m, up to the first one that
\* does not return: the calls made, the memory and saved parameters after
\* them, and whether one of them stopped the program.
RECURSIVE RunHandlers(_, _, _)
RunHandlers(hs, m, sv) ==
    IF hs = << >>
    THEN [made |-> << >>, mem |-> m, saved |-> sv, stopped |-> FALSE]
    ELSE LET r == RunHandler(Head(hs), m)
         IN  IF ~r.stop.returns
             THEN [made |-> <<Head(hs)>>, mem |-> r.mem,
                   saved |-> r.stop.saved, stopped |-> TRUE]
             ELSE LET rest == RunHandlers(Tail(hs), r.mem, r.stop.saved)
                  IN  [rest EXCEPT !.made = <<Head(hs)>> \o @]

CallRecord(op, arg, id, pc, info, evals, handler, rep, entered) ==
    [op |-> op, arg |-> arg, id |-> id, pc |-> pc, info |-> info,
     evals |-> evals, handler |-> handler, lines |-> rep.lines,
     reads |-> rep.reads, writes |-> rep.writes, entered |-> entered]

NoReport == Report(<< >>, {}, FALSE)

\* a statement that expands a check macro, whose result is r
CheckStep(op, v, r) ==
    LET h == RunHandlers(r.handler, mem, saved)
    IN  /\ evalCount' = r.cnt
        /\ mem' = h.mem
        /\ saved' = h.saved
        /\ mode' = IF h.stopped THEN "faulted" ELSE "nominal"
        /\ calls' = Append(calls, CallRecord(op, v, << >>, << >>, << >>,
                              r.cnt - evalCount, h.made, NoReport, h.made # << >>))
        /\ UNCHANGED <<build, stdout, logSink>>

CheckResult(v, line) ==
    /\ CanCall
    /\ CheckStep("APP_ERROR_CHECK", v, APP_ERROR_CHECK(v, evalCount, build, line))

CheckBool(v, line) ==
    /\ CanCall
    /\ CheckStep("APP_ERROR_CHECK_BOOL", v, APP_ERROR_CHECK_BOOL(v, evalCount, build, line))

\* a direct call of the fault handler
CallFault(id, pc, info) ==
    /\ CanCall
    /\ LET r == app_error_save_and_stop(id, pc, info)
       IN  /\ saved' = r.saved
           /\ mode' = IF r.returns THEN "nominal" ELSE "faulted"
           /\ calls' = Append(calls, CallRecord("app_error_save_and_stop", << >>,
                                 id, pc, info, 0, << >>, NoReport, TRUE))
    /\ UNCHANGED <<build, evalCount, mem, stdout, logSink>>

CallLog(id, pc, info) ==
    /\ CanCall
    /\ LET r == app_error_log(id, pc, info, mem)
       IN  /\ logSink' = logSink \o r.lines
           /\ mode' = IF r.faulted THEN "hardfault" ELSE "nominal"
           /\ calls' = Append(calls, CallRecord("app_error_log", << >>,
                                 id, pc, info, 0, << >>, r, FALSE))
    /\ UNCHANGED <<build, evalCount, mem, saved, stdout>>

CallPrint(id, pc, info, ub) ==
    /\ CanCall
    /\ LET r == app_error_print(id, pc, info, mem, ub)
       IN  /\ stdout' = stdout \o r.lines
           /\ mode' = IF r.faulted THEN "hardfault" ELSE "nominal"
           /\ calls' = Append(calls, CallRecord("app_error_print", << >>,
                                 id, pc, info, 0, << >>, r, FALSE))
    /\ UNCHANGED <<build, evalCount, mem, saved, logSink>>

\* the eternal loop of app_error_save_and_stop
Spin ==
    /\ mode = "faulted"
    /\ UNCHANGED vars

Next ==
    \/ \E v \in StatusValues, line \in CallSiteLines : CheckResult(v, line)
    \/ \E v \in Conditions, line \in CallSiteLines : CheckBool(v, line)
    \/ \E id \in FaultIds, pc \in ProgramCounters :
          \E info \in InfosFor(id) \cup {NULL} : CallFault(id, pc, info)
    \/ \E id \in FaultIds, pc \in ProgramCounters :
          \E info \in InfosFor(id) : CallLog(id, pc, info)
    \/ \E id \in FaultIds, pc \in ProgramCounters :
          \E info \in InfosFor(id), ub \in NullStringOutcomes : CallPrint(id, pc, info, ub)
    \/ Spin

Spec == Init /\ [][Next]_vars

---------------------------------------------------------------------------
\* Properties

Range(q) == {q[i] : i \in 1..Len(q)}

\* C truth value of an integer of any width, before any conversion
Truthy(v) == \E i \in 1..Len(v) : v[i] # 0

IsCheck(c)  == c.op \in {"APP_ERROR_CHECK", "APP_ERROR_CHECK_BOOL"}
IsReport(c) == c.op \in {"app_error_log", "app_error_print"}

\* the lines app_error_print is to write first, whatever the identifier
HeaderOf(c) ==
    << "app_error_print():\r\n",
       "Fault identifier:  0x" \o FmtX(c.id) \o "\r\n",
       "Program counter:   0x" \o FmtX(c.pc) \o "\r\n",
       "Fault information: 0x" \o FmtX(c.info) \o "\r\n" >>

\* C1: every APP_ERROR_CHECK(v) with v other than NRF_SUCCESS calls the error
\* handler exactly once, with error code v.
C1_CheckEscalatesOnce ==
    \A c \in Range(calls) :
        (c.op = "APP_ERROR_CHECK" /\ ToUint32(c.arg) # NRF_SUCCESS)
            => /\ Len(c.handler) = 1
               /\ c.handler[1].error_code = ToUint32(c.arg)

\* C2: as long as every operation so far was APP_ERROR_CHECK(NRF_SUCCESS), no
\* handler was called, nothing was saved and the program is nominal.
C2_SuccessNeverEscalates ==
    (\A c \in Range(calls) : c.op = "APP_ERROR_CHECK" /\ c.arg = NRF_SUCCESS)
        => /\ mode = "nominal"
           /\ saved = << >>
           /\ \A c \in Range(calls) : c.handler = << >> /\ ~c.entered

C2_Witness ==
    /\ Len(calls) >= 2
    /\ \A c \in Range(calls) : c.op = "APP_ERROR_CHECK" /\ c.arg = NRF_SUCCESS
    /\ mode = "nominal"

\* C3: every APP_ERROR_CHECK_BOOL(cond) calls the handler, with code 0, when
\* cond is zero, and calls no handler when cond is non-zero.
C3_BoolEscalatesIffFalsy ==
    \A c \in Range(calls) :
        c.op = "APP_ERROR_CHECK_BOOL"
            => IF Truthy(c.arg)
               THEN c.handler = << >>
               ELSE Len(c.handler) = 1 /\ c.handler[1].error_code = Word(0, 0)

\* C4: every APP_ERROR_CHECK and APP_ERROR_CHECK_BOOL evaluated its argument
\* exactly once (the counter rose by 1), escalation or not.
C4_ArgumentEvaluatedOnce ==
    /\ \A c \in Range(calls) : IsCheck(c) => c.evals = 1
    /\ evalCount = Cardinality({i \in 1..Len(calls) : IsCheck(calls[i])})

C4_Witness ==
    /\ \E c \in Range(calls) : IsCheck(c) /\ c.handler = << >> /\ c.evals = 1
    /\ \E c \in Range(calls) : IsCheck(c) /\ c.handler # << >> /\ c.evals = 1
    /\ \E c \in Range(calls) : c.op = "APP_ERROR_CHECK" /\ c.arg # NRF_SUCCESS

\* a step in which app_error_save_and_stop is entered
EntersFaultHandler ==
    /\ Len(calls') = Len(calls) + 1
    /\ calls'[Len(calls')].entered

\* C5: a step that enters the fault handler ends in the faulted state, and
\* no step leaves the faulted state.
C5_FaultedIsTerminal ==
    [][(EntersFaultHandler \/ mode = "faulted") => mode' = "faulted"]_vars

C5_Witness ==
    /\ mode = "faulted"
    /\ \E c \in Range(calls) :
          c.op = "app_error_save_and_stop" /\ c.info = NULL /\ saved = <<c.id, c.pc, c.info>>

\* C6: app_error_log with SDK_ERROR writes line number, file name and error
\* code when the file reference is non-null; with a null file reference it
\* does not dereference it and writes no file-name line.
C6_LogErrorFields ==
    \A c \in Range(calls) :
        (c.op = "app_error_log" /\ c.id = NRF_FAULT_ID_SDK_ERROR)
            => LET p == mem[c.info]
               IN  IF p.p_file_name # NULL
                   THEN {LineNumberLine(p.line_num), FileNameLine(CString(p.p_file_name)),
                         ErrorCodeLine(p.err_code)} \subseteq Range(c.lines)
                   ELSE /\ NULL \notin c.reads
                        /\ \A t \in {"(null)", "<bytes at 0>"} :
                              FileNameLine(t) \notin Range(c.lines)

\* C7: app_error_log with SDK_ASSERT and a non-null file reference writes the
\* line number and the file name, and never an error-code line.
C7_LogAssertFields ==
    \A c \in Range(calls) :
        (c.op = "app_error_log" /\ c.id = NRF_FAULT_ID_SDK_ASSERT)
            => LET p == mem[c.info]
               IN  /\ p.p_file_name # NULL
                        => {LineNumberLine(p.line_num), FileNameLine(CString(p.p_file_name))}
                              \subseteq Range(c.lines)
                   /\ Range(c.lines) \subseteq
                        {LineNumberLine(p.line_num)} \cup
                        (IF p.p_file_name # NULL
                         THEN {FileNameLine(CString(p.p_file_name))} ELSE {})

\* C8: with an identifier other than SDK_ERROR and SDK_ASSERT a reporter reads
\* no payload and writes no field line: app_error_log writes nothing,
\* app_error_print its header lines (identifier, pc, info) and nothing else.
C8_UnknownIdInert ==
    \A c \in Range(calls) :
        (IsReport(c) /\ c.id \notin KnownIds)
            => /\ c.reads = {}
               /\ c.writes = {}
               /\ c.op = "app_error_log" => c.lines = << >>
               /\ c.op = "app_error_print" => c.lines = HeaderOf(c)

C8_Witness ==
    /\ \E c \in Range(calls) :
          /\ c.op = "app_error_print" /\ c.id = NRF_FAULT_ID_SDK_RANGE_START
          /\ c.info = NULL
          /\ c.pc = Word(1, 49828)
          /\ c.lines = << "app_error_print():\r\n",
                          "Fault identifier:  0x4000\r\n",
                          "Program counter:   0x1C2A4\r\n",
                          "Fault information: 0x0\r\n" >>
    /\ \E c \in Range(calls) :
          c.op = "app_error_log" /\ c.id \notin KnownIds /\ c.info = NULL
    /\ mode = "nominal"

\* C9 as stated: no handler is ever called with an error code equal to
\* NRF_SUCCESS.
C9_HandlerNeverGetsSuccess ==
    \A c \in Range(calls) :
        \A h \in Range(c.handler) : h.error_code # NRF_SUCCESS

\* C9 as amended: APP_ERROR_CHECK never hands NRF_SUCCESS to a handler; the
\* handler calls of APP_ERROR_CHECK_BOOL all carry the code 0; and the
\* handler called is the one the build selects.
C9_OnlyBoolPassesZero ==
    \A c \in Range(calls) :
        \A h \in Range(c.handler) :
            /\ c.op \in {"APP_ERROR_CHECK", "APP_ERROR_CHECK_BOOL"}
            /\ c.op = "APP_ERROR_CHECK" => h.error_code # NRF_SUCCESS
            /\ c.op = "APP_ERROR_CHECK_BOOL" => h.error_code = Word(0, 0)
            /\ h.fn = IF build = "DEBUG" THEN "app_error_handler"
                      ELSE "app_error_handler_bare"

C9_Witness ==
    /\ build = "RELEASE"
    /\ \E c \in Range(calls) :
          /\ c.op = "APP_ERROR_CHECK_BOOL"
          /\ c.handler # << >>
          /\ c.handler[1].fn = "app_error_handler_bare"
          /\ c.handler[1].error_code = NRF_SUCCESS
    /\ \E c \in Range(calls) : c.op = "APP_ERROR_CHECK"

\* C10: every app_error_print writes the header lines first; then SDK_ERROR
\* gives line number, file name and error code, SDK_ASSERT line number and
\* file name, each the payload's field, and the payload is not written.
C10_PrintOrder ==
    \A c \in Range(calls) :
        c.op = "app_error_print"
            => /\ Len(c.lines) >= 4
               /\ SubSeq(c.lines, 1, 4) = HeaderOf(c)
               /\ c.writes = {}
               /\ c.id = NRF_FAULT_ID_SDK_ERROR
                    => /\ Len(c.lines) = 7
                       /\ c.lines[5] = LineNumberLine(mem[c.info].line_num)
                       /\ mem[c.info].p_file_name # NULL
                            => c.lines[6] = FileNameLine(CString(mem[c.info].p_file_name))
                       /\ c.lines[7] = ErrorCodeLine(mem[c.info].err_code)
               /\ c.id = NRF_FAULT_ID_SDK_ASSERT
                    => /\ Len(c.lines) = 6
                       /\ c.lines[5] = LineNumberLine(mem[c.info].line_num)
                       /\ mem[c.info].p_file_name # NULL
                            => c.lines[6] = FileNameLine(CString(mem[c.info].p_file_name))
               /\ c.id \notin KnownIds => Len(c.lines) = 4

=============================================================================
